---- MODULE Spec2Model ----
(***************************************************************************)
(* A model of cli/tools/lint.rs: the lint session (lint_files), the rule   *)
(* resolution (get_configured_rules), the per-file tasks                   *)
(* (lint_file / lint_stdin / handle_lint_result), the two reporters and    *)
(* sort_diagnostics.                                                       *)
(*                                                                         *)
(* Strings that are compared (file names) are sequences of code points;    *)
(* paths are sequences of bytes.  Rule codes, tags and messages are only   *)
(* tested for equality and are TLA+ strings.                               *)
(***************************************************************************)
EXTENDS Integers, Sequences, FiniteSets, TLC

VARIABLES
  flags,          \* the parameters of lint_files (lint.rs:46-54)
  env,            \* what the outside world answers: collect_files, stdin
  include_files,  \* the paths to collect from (lint.rs:59)
  exclude_files,  \* the paths to leave out (lint.rs:60)
  pc,             \* position of the main thread inside lint_files
  configured,     \* the selector get_configured_rules hands to the engine
  lint_rules,     \* the resolved rule collection (set of rule codes)
  has_error,      \* Arc<AtomicBool> (lint.rs:92)
  reporter_lock,  \* the threads holding the reporter mutex (lint.rs:99)
  reporter,       \* the Box<dyn LintReporter> behind the mutex
  task,           \* the per-file tasks: position, result, loop index
  output,         \* what the reporter printed so far, in order
  calls           \* history of the LintReporter methods invoked

vars == <<flags, env, include_files, exclude_files, pc, configured,
          lint_rules, has_error, reporter_lock, reporter, task, output, calls>>

-----------------------------------------------------------------------------
(* Bounds *)

\* Largest number of target files collect_files returns in a session.
MaxFiles == 2

-----------------------------------------------------------------------------
(* Option<T> *)

None == [some |-> FALSE, val |-> <<>>]

Some(v) == [some |-> TRUE, val |-> v]

\* Vec::contains / membership of a value in a sequence.
Contains(s, x) == \E i \in 1..Len(s) : s[i] = x

\* Vec::is_empty
is_empty(s) == Len(s) = 0

-----------------------------------------------------------------------------
(* The rule catalogue of the engine (deno_lint::rules), reduced to three   *)
(* rules: two tagged "recommended", one untagged.                          *)

AllRules == {"ban-types", "camelcase", "no-empty"}

RuleTags(code) == IF code \in {"ban-types", "no-empty"} THEN {"recommended"} ELSE {}

\* rules::get_recommended_rules()
get_recommended_rules == {r \in AllRules : "recommended" \in RuleTags(r)}

\* rules::get_filtered_rules(maybe_tags, maybe_exclude, maybe_include):
\* a rule passes if it carries one of the tags (any rule when no tags are
\* given) or is included, and is not excluded.
get_filtered_rules(maybe_tags, maybe_exclude, maybe_include) ==
  {r \in AllRules :
      /\ \/ IF maybe_tags.some
              THEN \E t \in RuleTags(r) : Contains(maybe_tags.val, t)
              ELSE TRUE
         \/ maybe_include.some /\ Contains(maybe_include.val, r)
      /\ ~(maybe_exclude.some /\ Contains(maybe_exclude.val, r))}

-----------------------------------------------------------------------------
(* get_configured_rules (lint.rs:437-491) *)

\* The test for the default path with the configuration file left out.
TakesDefaultPathIgnoringConfig(maybe_lint_config, rules_tags, rules_include, rules_exclude) ==
  /\ is_empty(rules_tags)
  /\ is_empty(rules_include)
  /\ is_empty(rules_exclude)

\* lint.rs:443-446: the test for the default path.
TakesDefaultPath(maybe_lint_config, rules_tags, rules_include, rules_exclude) ==
  /\ ~maybe_lint_config.some
  /\ is_empty(rules_tags)
  /\ is_empty(rules_include)
  /\ is_empty(rules_exclude)

\* lint.rs:451-460
config_file_tags(maybe_lint_config) ==
  IF maybe_lint_config.some THEN maybe_lint_config.val.rules.tags ELSE None

config_file_include(maybe_lint_config) ==
  IF maybe_lint_config.some THEN maybe_lint_config.val.rules.include ELSE None

config_file_exclude(maybe_lint_config) ==
  IF maybe_lint_config.some THEN maybe_lint_config.val.rules.exclude ELSE None

\* The include list with the configuration file taking precedence.
maybe_configured_include_config_first(maybe_lint_config, rules_include) ==
  IF config_file_include(maybe_lint_config).some
    THEN config_file_include(maybe_lint_config)
    ELSE Some(rules_include)

\* lint.rs:462-466
maybe_configured_include(maybe_lint_config, rules_include) ==
  IF ~is_empty(rules_include)
    THEN Some(rules_include)
    ELSE config_file_include(maybe_lint_config)

\* lint.rs:468-472
maybe_configured_exclude(maybe_lint_config, rules_exclude) ==
  IF ~is_empty(rules_exclude)
    THEN Some(rules_exclude)
    ELSE config_file_exclude(maybe_lint_config)

\* lint.rs:474-478 (unwrap_or_else(Vec::new))
configured_tags(maybe_lint_config, rules_tags) ==
  IF ~is_empty(rules_tags)
    THEN rules_tags
    ELSE IF config_file_tags(maybe_lint_config).some
           THEN config_file_tags(maybe_lint_config).val
           ELSE <<>>

\* The three arguments of the call at lint.rs:480-484.
ResolvedSelector(maybe_lint_config, rules_tags, rules_include, rules_exclude) ==
  [tags    |-> Some(configured_tags(maybe_lint_config, rules_tags)),
   exclude |-> maybe_configured_exclude(maybe_lint_config, rules_exclude),
   include |-> maybe_configured_include(maybe_lint_config, rules_include)]

\* lint.rs:486-488: `anyhow!("No rules have been configured");` builds an
\* error value and drops it: the statement neither returns nor propagates,
\* so an empty collection is returned as Ok like any other.
EmptyRulesIsError(configured_rules) == FALSE

\* The value get_configured_rules returns: Result<rules, error>.
get_configured_rules(maybe_lint_config, rules_tags, rules_include, rules_exclude) ==
  IF TakesDefaultPath(maybe_lint_config, rules_tags, rules_include, rules_exclude)
    THEN [ok |-> TRUE, rules |-> get_recommended_rules, selector |-> None]
    ELSE LET sel == ResolvedSelector(maybe_lint_config, rules_tags,
                                     rules_include, rules_exclude)
             configured_rules ==
               get_filtered_rules(sel.tags, sel.exclude, sel.include)
         IN  IF configured_rules = {} /\ EmptyRulesIsError(configured_rules)
               THEN [ok |-> FALSE, rules |-> {}, selector |-> Some(sel)]
               ELSE [ok |-> TRUE, rules |-> configured_rules,
                     selector |-> Some(sel)]

-----------------------------------------------------------------------------
(* Paths, file names and the files of the session                          *)

\* Path::to_string_lossy (lint.rs:132, lint.rs:199): the bytes of the path
\* decoded as UTF-8, every invalid byte replaced by U+FFFD.  The paths of the
\* model are built from ASCII bytes and the bytes 0xFE and 0xFF, which are
\* invalid wherever they stand.
to_string_lossy(path) ==
  [i \in 1..Len(path) |-> IF path[i] >= 128 THEN 65533 ELSE path[i]]

\* static STDIN_FILE_NAME: &str = "_stdin.ts" (lint.rs:32)
STDIN_FILE_NAME == <<95, 115, 116, 100, 105, 110, 46, 116, 115>>

Pos(l, c) == [line_index |-> l, column_index |-> c]

\* What the engine finds in a source text when every rule runs.
Finding(code, l, c, el, ec) ==
  [code |-> code, range |-> [start |-> Pos(l, c), end |-> Pos(el, ec)]]

\* The paths collect_files can return, and behind each the file on disk:
\* whether fs::read_to_string succeeds, whether the engine can parse the
\* text, and the findings of the engine in it, in the engine's order.
\*   a   : clean
\*   ab  : three findings, out of order, two at the same position
\*   b   : unreadable
\*   c   : read, but fatal for the engine
\*   0xFE, 0xFF : two paths that are not UTF-8, one finding at (0,0) each
Paths == {<<97>>, <<97, 98>>, <<98>>, <<99>>, <<254>>, <<255>>}

\* The text of each file is a sequence of code points (10 is the line feed):
\* "ok", "abc\nde", "(", "x", "y".
FileOnDisk(path) ==
  CASE path = <<97>>     -> [readable |-> TRUE, parses |-> TRUE,
                             source |-> <<111, 107>>, findings |-> <<>>]
    [] path = <<97, 98>> -> [readable |-> TRUE, parses |-> TRUE,
                             source |-> <<97, 98, 99, 10, 100, 101>>,
                             findings |->
                               <<Finding("no-empty", 1, 0, 1, 2),
                                 Finding("camelcase", 0, 1, 0, 3),
                                 Finding("ban-types", 0, 1, 0, 2)>>]
    [] path = <<98>>     -> [readable |-> FALSE, parses |-> TRUE,
                             source |-> <<>>, findings |-> <<>>]
    [] path = <<99>>     -> [readable |-> TRUE, parses |-> FALSE,
                             source |-> <<40>>, findings |-> <<>>]
    [] path = <<254>>    -> [readable |-> TRUE, parses |-> TRUE,
                             source |-> <<120>>, findings |->
                               <<Finding("no-empty", 0, 0, 0, 1)>>]
    [] path = <<255>>    -> [readable |-> TRUE, parses |-> TRUE,
                             source |-> <<121>>, findings |->
                               <<Finding("ban-types", 0, 0, 0, 1)>>]

\* "let xxx = 1;"
LetLine == <<108, 101, 116, 32, 120, 120, 120, 32, 61, 32, 49, 59>>

\* What standard input holds when it can be read: "let xxx = 1;\n\n{}".
StdinSource ==
  [readable |-> TRUE, parses |-> TRUE,
   source |-> LetLine \o <<10, 10, 123, 125>>,
   findings |->
     <<Finding("no-empty", 2, 0, 2, 2), Finding("ban-types", 0, 4, 0, 7)>>]

\* Ok((file_diagnostics, source_code)) (lint.rs:208, lint.rs:228)
Ok(diagnostics, source) ==
  [ok |-> TRUE, diagnostics |-> diagnostics, source |-> source, err |-> ""]

Err(message) ==
  [ok |-> FALSE, diagnostics |-> <<>>, source |-> <<>>, err |-> message]

\* Linter::lint(file_name, source_code) of the engine: a fatal error, or the
\* diagnostics of the rules that run, each carrying the file name it was given.
lint(file_name, file, rules) ==
  IF ~file.parses
    THEN Err("parse error")
    ELSE LET found == SelectSeq(file.findings, LAMBDA f : f.code \in rules)
         IN  Ok([i \in 1..Len(found) |->
                   [filename |-> file_name, code |-> found[i].code,
                    range |-> found[i].range]],
                file.source)

\* lint_file (lint.rs:195-209)
lint_file(file_path, rules) ==
  LET file_name == to_string_lossy(file_path)
      file == FileOnDisk(file_path)
  IN  IF ~file.readable
        THEN Err("io error")
        ELSE lint(file_name, file, rules)

\* lint_stdin (lint.rs:214-229)
lint_stdin(stdin_ok, rules) ==
  IF ~stdin_ok
    THEN Err("Failed to read from stdin")
    ELSE lint(STDIN_FILE_NAME, StdinSource, rules)

-----------------------------------------------------------------------------
(* sort_diagnostics (lint.rs:416-435) *)

\* Ord::cmp on usize
cmp(a, b) == IF a < b THEN "Less" ELSE IF a = b THEN "Equal" ELSE "Greater"

\* Ord::cmp on String: lexicographic on the code points.
str_cmp(a, b) ==
  LET n == IF Len(a) < Len(b) THEN Len(a) ELSE Len(b)
      diff == {i \in 1..n : a[i] # b[i]}
  IN  IF diff = {}
        THEN cmp(Len(a), Len(b))
        ELSE LET k == CHOOSE i \in diff : \A j \in diff : i <= j
             IN  cmp(a[k], b[k])

\* The comparator with the column compared before the line.
diagnostic_cmp_column_first(a, b) ==
  LET file_order == str_cmp(a.filename, b.filename)
  IN  IF file_order = "Equal"
        THEN LET column_order ==
                   cmp(a.range.start.column_index, b.range.start.column_index)
             IN  IF column_order = "Equal"
                   THEN cmp(a.range.start.line_index, b.range.start.line_index)
                   ELSE column_order
        ELSE file_order

\* The comparator closure of lint.rs:418-434.
diagnostic_cmp(a, b) ==
  LET file_order == str_cmp(a.filename, b.filename)
  IN  IF file_order = "Equal"
        THEN LET line_order ==
                   cmp(a.range.start.line_index, b.range.start.line_index)
             IN  IF line_order = "Equal"
                   THEN cmp(a.range.start.column_index,
                            b.range.start.column_index)
                   ELSE line_order
        ELSE file_order

\* Vec::sort_by is a stable sort: the result is the one ordering of the
\* input in which equal elements keep their relative order.  It is computed
\* here by insertion: each element goes before the first greater one.
stable_insert(sorted, d) ==
  LET greater == {i \in 1..Len(sorted) : diagnostic_cmp(sorted[i], d) = "Greater"}
      k == IF greater = {} THEN Len(sorted) + 1
           ELSE CHOOSE i \in greater : \A j \in greater : i <= j
  IN  SubSeq(sorted, 1, k - 1) \o <<d>> \o SubSeq(sorted, k, Len(sorted))

\* (The list sorted so far is bound to its value before the next element is
\* inserted into it.)
RECURSIVE sort_from(_, _, _)
sort_from(diagnostics, i, sorted) ==
  IF i > Len(diagnostics)
    THEN sorted
    ELSE CHOOSE result \in
           {sort_from(diagnostics, i + 1, inserted) :
              inserted \in {stable_insert(sorted, diagnostics[i])}} : TRUE

sort_diagnostics(diagnostics) == sort_from(diagnostics, 1, <<>>)

-----------------------------------------------------------------------------
(* format_diagnostic (lint.rs:319-380) *)

\* str::split(sep) on a text: the pieces between the separators.
RECURSIVE split_from(_, _, _, _)
split_from(text, sep, i, piece) ==
  IF i > Len(text) THEN <<piece>>
  ELSE IF text[i] = sep
    THEN <<piece>> \o split_from(text, sep, i + 1, <<>>)
    ELSE split_from(text, sep, i + 1, Append(piece, text[i]))

split(text, sep) == split_from(text, sep, 1, <<>>)

\* The number of bytes of a code point in UTF-8.
utf8_len(c) == IF c < 128 THEN 1 ELSE IF c < 2048 THEN 2 ELSE IF c < 65536 THEN 3 ELSE 4

\* str::len: the length of a string in bytes.
RECURSIVE len(_)
len(line) == IF line = <<>> THEN 0 ELSE utf8_len(Head(line)) + len(Tail(line))

\* str::repeat(n)
repeat(c, n) == [k \in 1..n |-> c]

\* A piece of a printed line as it is, and a piece wrapped by colors::red.
plain(text) == [style |-> "plain", text |-> text]

red(text) == [style |-> "red", text |-> text]

\* The loop body with the end column of a one-line range counted in.
pushed_for_end_inclusive(i, line, range) ==
  << <<plain(line)>> >> \o
  (IF range.start.line_index = range.end.line_index
     THEN << <<plain(repeat(" ", range.start.column_index)),
               red(repeat("^", range.end.column_index + 1
                                 - range.start.column_index))>> >>
     ELSE IF range.start.line_index = i
       THEN << <<plain(repeat(" ", range.start.column_index)),
                 red(repeat("^", len(line) - range.start.column_index))>> >>
       ELSE IF range.end.line_index = i
         THEN << <<red(repeat("^", range.end.column_index))>> >>
         ELSE IF len(line) # 0
           THEN << <<red(repeat("^", len(line)))>> >>
           ELSE << >>)

\* The loop body without the test for an empty line in between.
pushed_for_marks_empty_lines(i, line, range) ==
  << <<plain(line)>> >> \o
  (IF range.start.line_index = range.end.line_index
     THEN << <<plain(repeat(" ", range.start.column_index)),
               red(repeat("^", range.end.column_index
                                 - range.start.column_index))>> >>
     ELSE IF range.start.line_index = i
       THEN << <<plain(repeat(" ", range.start.column_index)),
                 red(repeat("^", len(line) - range.start.column_index))>> >>
       ELSE IF range.end.line_index = i
         THEN << <<red(repeat("^", range.end.column_index))>> >>
         ELSE << <<red(repeat("^", len(line)))>> >>)

\* lint.rs:335-358: what one turn of the loop pushes for line number i
\* (counted from 0): the line, and the marker under it if there is one.
pushed_for(i, line, range) ==
  << <<plain(line)>> >> \o
  (IF range.start.line_index = range.end.line_index
     THEN << <<plain(repeat(" ", range.start.column_index)),
               red(repeat("^", range.end.column_index
                                 - range.start.column_index))>> >>
     ELSE IF range.start.line_index = i
       THEN << <<plain(repeat(" ", range.start.column_index)),
                 red(repeat("^", len(line) - range.start.column_index))>> >>
       ELSE IF range.end.line_index = i
         THEN << <<red(repeat("^", range.end.column_index))>> >>
         ELSE IF len(line) # 0
           THEN << <<red(repeat("^", len(line)))>> >>
           ELSE << >>)

\* lint.rs:329-334: the loop runs over the lines start.line_index up to
\* end.line_index that the source has.
RECURSIVE snippet_lines(_, _, _)
snippet_lines(source_lines, range, i) ==
  IF i > range.end.line_index \/ i >= Len(source_lines)
    THEN << >>
    ELSE pushed_for(i, source_lines[i + 1], range)
           \o snippet_lines(source_lines, range, i + 1)

\* A subtraction of usize values below zero (lint.rs:341, lint.rs:350) ends
\* the call: it panics on overflow, or asks repeat for more than a String
\* can hold.
subtraction_underflows(source_lines, range) ==
  /\ range.start.line_index <= range.end.line_index
  /\ range.start.line_index < Len(source_lines)
  /\ IF range.start.line_index = range.end.line_index
       THEN range.end.column_index < range.start.column_index
       ELSE len(source_lines[range.start.line_index + 1])
              < range.start.column_index

\* format_diagnostic: the parts of the returned text, in their order.
format_diagnostic(diagnostic_code, message_line, source_lines, range, maybe_hint, formatted_location) ==
  IF subtraction_underflows(source_lines, range)
    THEN [panicked |-> TRUE, message_line |-> message_line, snippets |-> <<>>,
          formatted_location |-> formatted_location, hint |-> maybe_hint,
          help |-> diagnostic_code]
    ELSE [panicked |-> FALSE, message_line |-> message_line,
          snippets |-> snippet_lines(source_lines, range,
                                     range.start.line_index),
          formatted_location |-> formatted_location, hint |-> maybe_hint,
          help |-> diagnostic_code]

-----------------------------------------------------------------------------
(* The reporters (lint.rs:254-317, 382-414) *)

\* create_reporter (lint.rs:39-44, 94-99) with PrettyLintReporter::new and
\* JsonLintReporter::new.  One record holds the fields of both variants; a
\* variant leaves the other's fields untouched.
create_reporter(json) ==
  [kind |-> IF json THEN "Json" ELSE "Pretty",
   lint_count |-> 0, diagnostics |-> <<>>, errors |-> <<>>]

\* LintError (lint.rs:260-264)
LintError(file_path, message) == [file_path |-> file_path, message |-> message]

\* visit_diagnostic: the reporter afterwards (lint.rs:277-278, 398-400).
visit_diagnostic(rep, d) ==
  IF rep.kind = "Pretty"
    THEN [rep EXCEPT !.lint_count = @ + 1]
    ELSE [rep EXCEPT !.diagnostics = Append(@, d)]

\* visit_diagnostic: what it prints (lint.rs:280-296; nothing for Json).
visit_diagnostic_prints(rep, d, source_lines) ==
  IF rep.kind = "Pretty"
    THEN << [stream |-> "stderr",
             text |-> <<"diagnostic", d,
                        format_diagnostic(
                          d.code, [code |-> d.code], source_lines, d.range,
                          None,
                          [filename |-> d.filename,
                           line |-> d.range.start.line_index + 1,
                           column |-> d.range.start.column_index])>>] >>
    ELSE << >>

\* visit_error keeping only the record of the last failed file.
visit_error_keeps_last(rep, file_path, err) ==
  IF rep.kind = "Pretty"
    THEN rep
    ELSE [rep EXCEPT !.errors = <<LintError(file_path, err)>>]

\* visit_error counting the failed file as a problem.
visit_error_counts_problem(rep, file_path, err) ==
  IF rep.kind = "Pretty"
    THEN [rep EXCEPT !.lint_count = @ + 1]
    ELSE [rep EXCEPT !.errors = Append(@, LintError(file_path, err))]

\* visit_error: the reporter afterwards (lint.rs:299-302, 402-407).
visit_error(rep, file_path, err) ==
  IF rep.kind = "Pretty"
    THEN rep
    ELSE [rep EXCEPT !.errors = Append(@, LintError(file_path, err))]

\* visit_error: what it prints.
visit_error_prints(rep, file_path, err) ==
  IF rep.kind = "Pretty"
    THEN << [stream |-> "stderr", text |-> <<"Error linting:", file_path>>],
            [stream |-> "stderr", text |-> <<"   ", err>>] >>
    ELSE << >>

\* close: the reporter afterwards (lint.rs:304-316, 409-413).
close(rep, check_count) ==
  IF rep.kind = "Pretty"
    THEN rep
    ELSE [rep EXCEPT !.diagnostics = sort_diagnostics(@)]

\* close: what it prints.
close_prints(rep, check_count) ==
  IF rep.kind = "Pretty"
    THEN (IF rep.lint_count = 1
            THEN << [stream |-> "info", text |-> <<"Found", 1, "problem">>] >>
            ELSE IF rep.lint_count > 1
              THEN << [stream |-> "info",
                       text |-> <<"Found", rep.lint_count, "problems">>] >>
              ELSE << >>)
         \o
         (IF check_count <= 1
            THEN << [stream |-> "info", text |-> <<"Checked", check_count, "file">>] >>
            ELSE << [stream |-> "info", text |-> <<"Checked", check_count, "files">>] >>)
    ELSE << [stream |-> "stdout",
             text |-> <<"json", close(rep, check_count).diagnostics, rep.errors>>] >>

-----------------------------------------------------------------------------
(* The inputs of a session *)

\* LintConfig (crate::config_file), the parts lint.rs reads.
LintConfig(tags, include, exclude) ==
  [rules |-> [tags |-> tags, include |-> include, exclude |-> exclude],
   files |-> [include |-> <<>>, exclude |-> <<>>]]

\* A String in UTF-8, as the bytes of a path.
RECURSIVE utf8(_)
utf8(text) ==
  IF text = <<>> THEN <<>>
  ELSE LET c == Head(text)
       IN  (IF c < 128 THEN <<c>>
            ELSE IF c < 2048 THEN <<192 + (c \div 64), 128 + (c % 64)>>
            ELSE <<224 + (c \div 4096), 128 + ((c \div 64) % 64), 128 + (c % 64)>>)
           \o utf8(Tail(text))

\* PathBuf::from(&String) (lint.rs:67, 76)
PathBuf_from(text) == utf8(text)

\* The configured paths, each as a PathBuf (lint.rs:63-68, 72-77).
map_PathBuf_from(list) == [k \in 1..Len(list) |-> PathBuf_from(list[k])]

\* The include paths with the configuration file asked first.
prepare_include_files_config_first(maybe_lint_config, args) ==
  IF maybe_lint_config.some /\ ~is_empty(maybe_lint_config.val.files.include)
    THEN map_PathBuf_from(maybe_lint_config.val.files.include)
    ELSE args

\* lint.rs:59, 62-69: the path arguments, or files.include of the
\* configuration file when no argument is given.
prepare_include_files(maybe_lint_config, args) ==
  IF maybe_lint_config.some /\ is_empty(args)
    THEN map_PathBuf_from(maybe_lint_config.val.files.include)
    ELSE args

\* lint.rs:60, 62, 71-78: --ignore, or files.exclude of the configuration
\* file when --ignore is empty.
prepare_exclude_files(maybe_lint_config, ignore) ==
  IF maybe_lint_config.some /\ is_empty(ignore)
    THEN map_PathBuf_from(maybe_lint_config.val.files.exclude)
    ELSE ignore

\* The "-" argument (lint.rs:102).
StdinArgs == << <<45>> >>

is_stdin(args) == Len(args) = 1 /\ args[1] = <<45>>

Flags(config, tags, include, exclude, args, json) ==
  [maybe_lint_config |-> config, rules_tags |-> tags,
   rules_include |-> include, rules_exclude |-> exclude,
   args |-> args, ignore |-> <<>>, json |-> json]

\* Rule selections a session is run under: nothing given (the default
\* path); a configuration file that selects nothing; configured tags with a
\* rule included on the command line; a tag with a rule excluded.
SessionSelections ==
  { <<None, <<>>, <<>>, <<>> >>,
    <<Some(LintConfig(None, None, None)), <<>>, <<>>, <<>> >>,
    <<Some(LintConfig(Some(<<"recommended">>), Some(<<"ban-types">>), None)),
      <<>>, <<"camelcase">>, <<>> >>,
    <<None, <<"recommended">>, <<>>, <<"no-empty">> >> }

\* Every combination of selectors, for the checks of get_configured_rules.
OptionOf(S) == {None} \cup {Some(v) : v \in S}

AllSelections ==
  ({None} \cup
     {Some(LintConfig(t, i, e)) :
        t \in OptionOf({<<>>, <<"recommended">>}),
        i \in OptionOf({<<>>, <<"ban-types">>, <<"camelcase">>}),
        e \in OptionOf({<<"ban-types">>, <<"no-empty", "ban-types">>})})
  \X {<<>>, <<"recommended">>, <<"style">>}
  \X {<<>>, <<"no-empty">>, <<"camelcase">>}
  \X {<<>>, <<"no-empty">>}

\* Sequences without repetition over S, of length n.
RECURSIVE DistinctSeqs(_, _)
DistinctSeqs(S, n) ==
  IF n = 0 THEN {<<>>}
  ELSE UNION {{Append(s, x) : x \in S \ {s[i] : i \in 1..Len(s)}} :
                s \in DistinctSeqs(S, n - 1)}

\* What collect_files (crate::fs_util) can answer: an error, or a list of
\* distinct files (possibly empty).
CollectResults ==
  {[ok |-> FALSE, files |-> <<>>]} \cup
  {[ok |-> TRUE, files |-> fs] :
     fs \in UNION {DistinctSeqs(Paths, n) : n \in 0..MaxFiles}}

\* The worlds a session runs in: its path arguments, the --json flag, and
\* the answer of collect_files (of standard input, for "-").
SessionWorlds ==
  {<<StdinArgs, j, [collect |-> [ok |-> FALSE, files |-> <<>>], stdin_ok |-> b]>> :
     j \in BOOLEAN, b \in BOOLEAN}
  \cup
  {<< <<>>, j, [collect |-> c, stdin_ok |-> TRUE]>> :
     j \in BOOLEAN, c \in CollectResults}

InitWith(Selections, Worlds) ==
  /\ \E sel \in Selections, w \in Worlds :
       /\ flags = Flags(sel[1], sel[2], sel[3], sel[4], w[1], w[2])
       /\ env = w[3]
       /\ include_files = flags.args
       /\ exclude_files = flags.ignore
  /\ pc = "start"
  /\ configured = None
  /\ lint_rules = {}
  /\ has_error = FALSE
  /\ reporter_lock = {}
  /\ reporter = create_reporter(flags.json)
  /\ task = <<>>
  /\ output = <<>>
  /\ calls = <<>>

Init == InitWith(SessionSelections, SessionWorlds)

-----------------------------------------------------------------------------
(* lint_files, the main thread (lint.rs:46-153) *)

\* The task of file number t is a record: its position (pc), the result of
\* linting the file, and the index i of the loop of handle_lint_result.
NewTask == [pc |-> "lint", result |-> Ok(<<>>, <<>>), i |-> 0]

Tasks == 1..Len(task)

\* The thread id of the main thread as a holder of the mutex; tasks are 1, 2, ...
MainThread == 0

\* The file path handle_lint_result is given (lint.rs:106, lint.rs:132).
file_path_of(t) ==
  IF is_stdin(flags.args)
    THEN STDIN_FILE_NAME
    ELSE to_string_lossy(env.collect.files[t])

\* The file count taken from the collected files whatever the arguments.
no_of_files_collected == Len(env.collect.files)

\* no_of_files_linted (lint.rs:101, 112, 142)
no_of_files_linted ==
  IF is_stdin(flags.args) THEN 1 ELSE Len(env.collect.files)

\* lint.rs:55-99: prepare the paths, resolve the rules (`?` returns the error to the caller),
\* then create the failure flag and the reporter behind its mutex.
ResolveRules ==
  /\ pc = "start"
  /\ LET r == get_configured_rules(flags.maybe_lint_config, flags.rules_tags,
                                   flags.rules_include, flags.rules_exclude)
     IN  /\ configured' = r.selector
         /\ lint_rules' = r.rules
         /\ pc' = IF r.ok THEN "configured" ELSE "returned_err"
  /\ include_files' = prepare_include_files(flags.maybe_lint_config, flags.args)
  /\ exclude_files' = prepare_exclude_files(flags.maybe_lint_config, flags.ignore)
  /\ has_error' = FALSE
  /\ reporter_lock' = {}
  /\ reporter' = create_reporter(flags.json)
  /\ UNCHANGED <<flags, env, task, output, calls>>

\* lint.rs:102-110: the "-" argument: one task, run by the main thread itself.
StartStdin ==
  /\ pc = "configured"
  /\ is_stdin(flags.args)
  /\ task' = <<NewTask>>
  /\ pc' = "running"
  /\ UNCHANGED <<flags, env, include_files, exclude_files,
                 configured, lint_rules, has_error, reporter_lock,
                 reporter, output, calls>>

\* The same step without the test for an empty list: the session goes on
\* with no file.
CollectFailsOnlyOnError ==
  /\ pc = "configured"
  /\ ~is_stdin(flags.args)
  /\ ~env.collect.ok \/ is_empty(env.collect.files)
  /\ pc' = IF env.collect.ok THEN "running" ELSE "returned_err"
  /\ UNCHANGED <<flags, env, include_files, exclude_files,
                 configured, lint_rules, has_error, reporter_lock,
                 reporter, task, output, calls>>

\* lint.rs:114-122: collect_files failed or found nothing; `?` returns.
CollectFails ==
  /\ pc = "configured"
  /\ ~is_stdin(flags.args)
  /\ ~env.collect.ok \/ is_empty(env.collect.files)
  /\ pc' = "returned_err"
  /\ UNCHANGED <<flags, env, include_files, exclude_files,
                 configured, lint_rules, has_error, reporter_lock,
                 reporter, task, output, calls>>

\* run_parallelized (crate::tools::fmt) as called at lint.rs:126: one task
\* per target file, all started before any is awaited.
run_parallelized(target_files) == [t \in 1..Len(target_files) |-> NewTask]

\* lint.rs:114-139: the target files are collected and the tasks spawned.
CollectAndSpawn ==
  /\ pc = "configured"
  /\ ~is_stdin(flags.args)
  /\ env.collect.ok /\ ~is_empty(env.collect.files)
  /\ task' = run_parallelized(env.collect.files)
  /\ pc' = "running"
  /\ UNCHANGED <<flags, env, include_files, exclude_files,
                 configured, lint_rules, has_error, reporter_lock,
                 reporter, output, calls>>

\* The await of run_parallelized (lint.rs:140) completes when every task has
\* returned; in stdin mode handle_lint_result has returned (lint.rs:110).
AllTasksReturned == \A t \in Tasks : task[t].pc = "done"

Join ==
  /\ pc = "running"
  /\ AllTasksReturned
  /\ pc' = "joined"
  /\ UNCHANGED <<flags, env, include_files, exclude_files,
                 configured, lint_rules, has_error, reporter_lock,
                 reporter, task, output, calls>>

\* A lock that never blocks.
MutexNeverBlocks == TRUE

\* Mutex::lock succeeds when no thread holds the mutex.
MutexFree == reporter_lock = {}

\* lint.rs:145, reporter_lock.lock()
CloseLock ==
  /\ pc = "joined"
  /\ MutexFree
  /\ reporter_lock' = reporter_lock \cup {MainThread}
  /\ pc' = "closing"
  /\ UNCHANGED <<flags, env, include_files, exclude_files,
                 configured, lint_rules, has_error, reporter,
                 task, output, calls>>

\* lint.rs:145, .close(no_of_files_linted); the guard is dropped at the end
\* of the statement.
Close ==
  /\ pc = "closing"
  /\ reporter' = close(reporter, no_of_files_linted)
  /\ output' = output \o close_prints(reporter, no_of_files_linted)
  /\ calls' = Append(calls, [op |-> "close", by |-> MainThread,
                             arg |-> no_of_files_linted])
  /\ reporter_lock' = reporter_lock \ {MainThread}
  /\ pc' = "closed"
  /\ UNCHANGED <<flags, env, include_files, exclude_files,
                 configured, lint_rules, has_error, task>>

\* ExitStatus with the flag ignored.
ExitStatusIgnoresFlag(flag) == "returned_ok"

\* lint.rs:146-152: the flag is loaded; exit(1) or return Ok(()).
ExitStatus(flag) == IF flag THEN "exit_1" ELSE "returned_ok"

\* LoadHasError placed before the close: the flag decides as soon as the
\* tasks have joined.
LoadHasErrorBeforeClose ==
  /\ pc = "joined"
  /\ pc' = ExitStatus(has_error)
  /\ UNCHANGED <<flags, env, include_files, exclude_files,
                 configured, lint_rules, has_error, reporter_lock,
                 reporter, task, output, calls>>

LoadHasError ==
  /\ pc = "closed"
  /\ pc' = ExitStatus(has_error)
  /\ UNCHANGED <<flags, env, include_files, exclude_files,
                 configured, lint_rules, has_error, reporter_lock,
                 reporter, task, output, calls>>

-----------------------------------------------------------------------------
(* The per-file task: lint_file, then handle_lint_result (lint.rs:129-137, *)
(* 231-252)                                                                *)

\* lint.rs:130 / lint.rs:103
LintFile(t) ==
  /\ task[t].pc = "lint"
  /\ task' = [task EXCEPT
       ![t].result = IF is_stdin(flags.args)
                       THEN lint_stdin(env.stdin_ok, lint_rules)
                       ELSE lint_file(env.collect.files[t], lint_rules),
       ![t].pc = "lock"]
  /\ UNCHANGED <<flags, env, include_files, exclude_files,
                 pc, configured, lint_rules, has_error,
                 reporter_lock, reporter, output, calls>>

\* The result handed on as the engine returned it.
unsorted_result(result) == result

\* lint.rs:241: the diagnostics of the file are sorted before the loop.
sorted_result(result) ==
  [result EXCEPT !.diagnostics = sort_diagnostics(@)]

\* lint.rs:237-241, 247: the mutex is taken, the result matched.
Lock(t) ==
  /\ task[t].pc = "lock"
  /\ MutexFree
  /\ reporter_lock' = reporter_lock \cup {t}
  /\ task' = [task EXCEPT
       ![t].result = sorted_result(@),
       ![t].i = 1,
       ![t].pc = IF task[t].result.ok THEN "loop" ELSE "err_store"]
  /\ UNCHANGED <<flags, env, include_files, exclude_files,
                 pc, configured, lint_rules, has_error, reporter,
                 output, calls>>

\* lint.rs:243: has_error.store(true) for the diagnostic at hand.
LoopStore(t) ==
  /\ task[t].pc = "loop"
  /\ task[t].i <= Len(task[t].result.diagnostics)
  /\ has_error' = TRUE
  /\ task' = [task EXCEPT ![t].pc = "visit"]
  /\ UNCHANGED <<flags, env, include_files, exclude_files,
                 pc, configured, lint_rules, reporter_lock,
                 reporter, output, calls>>

\* LoopVisit that does not advance to the next diagnostic.
LoopVisitStuck(t) ==
  /\ task[t].pc = "visit"
  /\ LET d == task[t].result.diagnostics[task[t].i]
     IN  /\ reporter' = visit_diagnostic(reporter, d)
         /\ output' = output \o visit_diagnostic_prints(
                                   reporter, d, split(task[t].result.source, 10))
         /\ calls' = Append(calls, [op |-> "visit_diagnostic", by |-> t,
                                    arg |-> d])
  /\ task' = [task EXCEPT ![t].pc = "loop"]
  /\ UNCHANGED <<flags, env, include_files, exclude_files,
                 pc, configured, lint_rules, has_error,
                 reporter_lock>>

\* lint.rs:244: reporter.visit_diagnostic(d, ..)
LoopVisit(t) ==
  /\ task[t].pc = "visit"
  /\ LET d == task[t].result.diagnostics[task[t].i]
     IN  /\ reporter' = visit_diagnostic(reporter, d)
         /\ output' = output \o visit_diagnostic_prints(
                                   reporter, d, split(task[t].result.source, 10))
         /\ calls' = Append(calls, [op |-> "visit_diagnostic", by |-> t,
                                    arg |-> d])
  /\ task' = [task EXCEPT ![t].i = @ + 1, ![t].pc = "loop"]
  /\ UNCHANGED <<flags, env, include_files, exclude_files,
                 pc, configured, lint_rules, has_error,
                 reporter_lock>>

\* ErrStore without the store: the error is reported, the flag left alone.
ErrStoreForgotten(t) ==
  /\ task[t].pc = "err_store"
  /\ task' = [task EXCEPT ![t].pc = "err_visit"]
  /\ UNCHANGED <<flags, env, include_files, exclude_files,
                 pc, configured, lint_rules, has_error,
                 reporter_lock, reporter, output, calls>>

\* lint.rs:248: has_error.store(true) for the failed file.
ErrStore(t) ==
  /\ task[t].pc = "err_store"
  /\ has_error' = TRUE
  /\ task' = [task EXCEPT ![t].pc = "err_visit"]
  /\ UNCHANGED <<flags, env, include_files, exclude_files,
                 pc, configured, lint_rules, reporter_lock,
                 reporter, output, calls>>

\* ErrVisit that ends the process on the spot instead of going on.
ErrVisitExits(t) ==
  /\ task[t].pc = "err_visit"
  /\ LET e == task[t].result.err
     IN  /\ reporter' = visit_error(reporter, file_path_of(t), e)
         /\ output' = output \o visit_error_prints(reporter, file_path_of(t), e)
         /\ calls' = Append(calls, [op |-> "visit_error", by |-> t,
                                    arg |-> LintError(file_path_of(t), e)])
  /\ task' = [task EXCEPT ![t].pc = "unlock"]
  /\ pc' = "exit_1"
  /\ UNCHANGED <<flags, env, include_files, exclude_files,
                 configured, lint_rules, has_error,
                 reporter_lock>>

\* lint.rs:249: reporter.visit_error(file_path, &err)
ErrVisit(t) ==
  /\ task[t].pc = "err_visit"
  /\ LET e == task[t].result.err
     IN  /\ reporter' = visit_error(reporter, file_path_of(t), e)
         /\ output' = output \o visit_error_prints(reporter, file_path_of(t), e)
         /\ calls' = Append(calls, [op |-> "visit_error", by |-> t,
                                    arg |-> LintError(file_path_of(t), e)])
  /\ task' = [task EXCEPT ![t].pc = "unlock"]
  /\ UNCHANGED <<flags, env, include_files, exclude_files,
                 pc, configured, lint_rules, has_error,
                 reporter_lock>>

\* handle_lint_result returning with the guard still held.
UnlockKeepsGuard(t) ==
  /\ \/ task[t].pc = "loop" /\ task[t].i > Len(task[t].result.diagnostics)
     \/ task[t].pc = "unlock"
  /\ task' = [task EXCEPT ![t].pc = "done"]
  /\ UNCHANGED <<flags, env, include_files, exclude_files, pc, configured,
                 lint_rules, has_error, reporter_lock, reporter, output, calls>>

\* lint.rs:252: the guard is dropped as handle_lint_result returns, after the
\* loop has run out or after visit_error.
Unlock(t) ==
  /\ \/ task[t].pc = "loop" /\ task[t].i > Len(task[t].result.diagnostics)
     \/ task[t].pc = "unlock"
  /\ reporter_lock' = reporter_lock \ {t}
  /\ task' = [task EXCEPT ![t].pc = "done"]
  /\ UNCHANGED <<flags, env, include_files, exclude_files,
                 pc, configured, lint_rules, has_error, reporter,
                 output, calls>>

-----------------------------------------------------------------------------

Next ==
  \/ ResolveRules
  \/ StartStdin
  \/ CollectFails
  \/ CollectAndSpawn
  \/ Join
  \/ CloseLock
  \/ Close
  \/ LoadHasError
  \/ \E t \in Tasks : LintFile(t)
  \/ \E t \in Tasks : Lock(t)
  \/ \E t \in Tasks : LoopStore(t)
  \/ \E t \in Tasks : LoopVisit(t)
  \/ \E t \in Tasks : ErrStore(t)
  \/ \E t \in Tasks : ErrVisit(t)
  \/ \E t \in Tasks : Unlock(t)

Spec == Init /\ [][Next]_vars

\* The steps of the main thread and of the task of file number t.
MainStep ==
  \/ ResolveRules
  \/ StartStdin
  \/ CollectFails
  \/ CollectAndSpawn
  \/ Join
  \/ CloseLock
  \/ Close
  \/ LoadHasError

TaskStep(t) ==
  /\ t \in Tasks
  /\ \/ LintFile(t)
     \/ Lock(t)
     \/ LoopStore(t)
     \/ LoopVisit(t)
     \/ ErrStore(t)
     \/ ErrVisit(t)
     \/ Unlock(t)

\* The session under a fair scheduler: the main thread and every task that
\* can take a step eventually takes one.  A file read and an engine call
\* are single steps, so they end; a thread waiting for the mutex cannot
\* take its step until the mutex is free.
FairSpec ==
  /\ Spec
  /\ WF_vars(MainStep)
  /\ \A t \in 1..MaxFiles : WF_vars(TaskStep(t))

-----------------------------------------------------------------------------
(* sort_diagnostics on its own: the JSON reporter is about to close over a  *)
(* list of diagnostics drawn from a small universe, in any order.          *)

\* Longest list of diagnostics handed to sort_diagnostics.
MaxSortLen == 3

Diagnostic(filename, l, c) ==
  [filename |-> filename, code |-> "no-empty",
   range |-> [start |-> Pos(l, c), end |-> Pos(l, c + 1)]]

SortUniverse ==
  {Diagnostic(f, l, c) : f \in {<<97>>, <<97, 98>>, <<98>>},
                         l \in {1, 5}, c \in {1, 2}}

RECURSIVE SeqsUpTo(_, _)
SeqsUpTo(S, n) ==
  IF n = 0 THEN {<<>>}
  ELSE LET shorter == SeqsUpTo(S, n - 1)
       IN  shorter \cup {Append(s, x) : s \in {u \in shorter : Len(u) = n - 1},
                                        x \in S}

SortInit ==
  /\ flags = Flags(None, <<>>, <<>>, <<>>, <<>>, TRUE)
  /\ env = [collect |-> [ok |-> TRUE, files |-> <<>>], stdin_ok |-> TRUE]
  /\ include_files = flags.args
  /\ exclude_files = flags.ignore
  /\ pc = "closing"
  /\ configured = None
  /\ lint_rules = get_recommended_rules
  /\ has_error = FALSE
  /\ reporter_lock = {MainThread}
  /\ \E ds \in SeqsUpTo(SortUniverse, MaxSortLen) :
       /\ reporter = [create_reporter(TRUE) EXCEPT !.diagnostics = ds]
       /\ calls = [k \in 1..Len(ds) |->
                     [op |-> "visit_diagnostic", by |-> MainThread, arg |-> ds[k]]]
  /\ task = <<>>
  /\ output = <<>>

SortSpec == SortInit /\ [][Close]_vars

-----------------------------------------------------------------------------
(* format_diagnostic on its own: the human-readable reporter is about to   *)
(* visit one diagnostic whose range lies anywhere in the text of the file. *)

\* The texts: "let xxx = 1;" and four lines, "aé", "", "éb", "c".
FormatSources == {LetLine, <<97, 233, 10, 10, 233, 98, 10, 99>>}

\* The positions of a text: a line of it and a column from 0 to the number
\* of characters of that line.
PositionsIn(text) ==
  LET lines == split(text, 10)
  IN  {p \in [line_index : 0..(Len(lines) - 1), column_index : 0..Len(text)] :
         p.column_index <= Len(lines[p.line_index + 1])}

\* start is not after end in document order.
NotAfter(start, end) ==
  \/ start.line_index < end.line_index
  \/ /\ start.line_index = end.line_index
     /\ start.column_index <= end.column_index

RangesIn(text) ==
  {r \in [start : PositionsIn(text), end : PositionsIn(text)] :
     NotAfter(r.start, r.end)}

FormatInit ==
  /\ flags = Flags(None, <<>>, <<>>, <<>>, <<>>, FALSE)
  /\ env = [collect |-> [ok |-> TRUE, files |-> << <<97>> >>],
            stdin_ok |-> TRUE]
  /\ include_files = flags.args
  /\ exclude_files = flags.ignore
  /\ pc = "running"
  /\ configured = None
  /\ lint_rules = get_recommended_rules
  /\ has_error = TRUE
  /\ reporter_lock = {1}
  /\ reporter = create_reporter(FALSE)
  /\ \E text \in FormatSources :
       \E r \in RangesIn(text) :
         task = << [pc |-> "visit", i |-> 1,
                    result |-> Ok(<< [filename |-> <<97>>, code |-> "no-empty",
                                      range |-> r] >>, text)] >>
  /\ output = <<>>
  /\ calls = <<>>

FormatSpec == FormatInit /\ [][\E t \in Tasks : LoopVisit(t)]_vars

-----------------------------------------------------------------------------
(* The preparation of the paths on its own, over combinations of path      *)
(* arguments, --ignore and the files section of a configuration file.      *)

\* files.include and files.exclude of a configuration file: "src", "é",
\* "x", "y".
ConfiguredIncludes == {<<>>, << <<115, 114, 99>> >>, << <<233>> >>}

ConfiguredExcludes == {<<>>, << <<120>> >>, << <<233>>, <<121>> >>}

PathConfigs ==
  {None} \cup
  {Some([LintConfig(None, None, None) EXCEPT
           !.files = [include |-> i, exclude |-> e]]) :
     i \in ConfiguredIncludes, e \in ConfiguredExcludes}

PathArgs == {<<>>, << <<97>> >>, << <<97>>, <<255>> >>}

IgnoreArgs == {<<>>, << <<98>> >>, << <<254>> >>}

PathsInit ==
  /\ \E c \in PathConfigs, a \in PathArgs, ig \in IgnoreArgs :
       flags = [Flags(c, <<>>, <<>>, <<>>, a, FALSE) EXCEPT !.ignore = ig]
  /\ env = [collect |-> [ok |-> FALSE, files |-> <<>>], stdin_ok |-> TRUE]
  /\ include_files = flags.args
  /\ exclude_files = flags.ignore
  /\ pc = "start"
  /\ configured = None
  /\ lint_rules = {}
  /\ has_error = FALSE
  /\ reporter_lock = {}
  /\ reporter = create_reporter(flags.json)
  /\ task = <<>>
  /\ output = <<>>
  /\ calls = <<>>

PathsSpec == PathsInit /\ [][ResolveRules]_vars

-----------------------------------------------------------------------------
(* get_configured_rules on its own, over every combination of selectors.   *)

RulesInit ==
  InitWith(AllSelections,
           {<< <<>>, FALSE, [collect |-> [ok |-> FALSE, files |-> <<>>],
                             stdin_ok |-> TRUE]>>})

RulesSpec == RulesInit /\ [][ResolveRules]_vars

-----------------------------------------------------------------------------
(* Vocabulary of the properties *)

\* The reporter calls made so far with one of the given method names.
CallsOf(ops) == SelectSeq(calls, LAMBDA c : c.op \in ops)

\* The reporter calls made so far by thread t.
CallsBy(t) == SelectSeq(calls, LAMBDA c : c.by = t)

Visits == {"visit_diagnostic", "visit_error"}

\* Something was recorded: a diagnostic or a file-level error was visited.
SomethingRecorded == Len(CallsOf(Visits)) > 0

\* The threads inside a method of the shared reporter.
InsideReporter ==
  {t \in Tasks : task[t].pc \in {"loop", "visit", "err_store", "err_visit", "unlock"}}
  \cup (IF pc = "closing" THEN {MainThread} ELSE {})

-----------------------------------------------------------------------------
(* C1 *)

\* C1: once the rules are resolved to an empty collection, lint_files has
\* returned an error, no task was started and the reporter was never called:
\* nothing is collected, read, linted, visited or closed.
C1_EmptyRulesAbort ==
  (pc # "start" /\ lint_rules = {}) =>
    (pc = "returned_err" /\ task = <<>> /\ calls = <<>> /\ output = <<>>)

-----------------------------------------------------------------------------
(* C2 *)

\* C2: when the session has gone through close and decided its exit status,
\* the status is 0 (lint_files returns Ok) exactly if no diagnostic and no
\* file-level error was visited, and 1 otherwise.
C2_ExitStatus ==
  (pc \in {"returned_ok", "exit_1"}) =>
    /\ Len(CallsOf({"close"})) = 1
    /\ (pc = "returned_ok") <=> ~SomethingRecorded
    /\ (pc = "exit_1") <=> SomethingRecorded

\* Two files, one clean and one with a single diagnostic: exit status 1.
C2_Witness ==
  /\ pc = "exit_1"
  /\ Len(task) = 2
  /\ Len(calls) = 2
  /\ calls[1].op = "visit_diagnostic"
  /\ \E t \in Tasks : task[t].result.ok /\ task[t].result.diagnostics = <<>>

-----------------------------------------------------------------------------
(* C3 *)

\* C3: whenever no thread holds the reporter lock, has_error is true exactly
\* if a diagnostic or a file-level error has been given to the reporter; and
\* no step resets the flag.
C3_FlagIffRecorded ==
  /\ [](reporter_lock = {} => (has_error <=> SomethingRecorded))
  /\ [][has_error => has_error']_vars

\* A clean file has been handled and released the lock without setting the
\* flag, which another file then set.
C3_Witness ==
  /\ reporter_lock = {}
  /\ has_error
  /\ pc = "running"
  /\ \E t \in Tasks :
       task[t].pc = "done" /\ task[t].result.ok
         /\ task[t].result.diagnostics = <<>>
  /\ \E t \in Tasks : task[t].pc = "done" /\ ~task[t].result.ok

-----------------------------------------------------------------------------
(* C4 *)

\* The outcome of the file of task t, from the file and the rules alone.
OutcomeOf(t) ==
  IF is_stdin(flags.args)
    THEN lint_stdin(env.stdin_ok, lint_rules)
    ELSE lint_file(env.collect.files[t], lint_rules)

\* How many times x occurs in the sequence s.
Count(s, x) == Cardinality({i \in 1..Len(s) : s[i] = x})

\* The reporter has the whole outcome of task t, once: the single error of a
\* failed file, or each diagnostic of a linted file as often as the engine
\* produced it.
DeliveredOnce(t) ==
  LET o == OutcomeOf(t)
      mine == CallsBy(t)
  IN  IF o.ok
        THEN /\ Len(mine) = Len(o.diagnostics)
             /\ \A k \in 1..Len(mine) :
                  /\ mine[k].op = "visit_diagnostic"
                  /\ Count(mine, mine[k]) = Count(o.diagnostics, mine[k].arg)
        ELSE /\ Len(mine) = 1
             /\ mine[1].op = "visit_error"
             /\ mine[1].arg = LintError(file_path_of(t), o.err)

\* C4: there is one task per target file; a task that has not taken the lock
\* has delivered nothing, a task never delivers more than its outcome, and
\* a task that has returned has delivered its outcome exactly once.
C4_EachFileOnce ==
  /\ pc \in {"running", "joined", "closing", "closed", "returned_ok", "exit_1"}
       => Len(task) = no_of_files_linted
  /\ pc \in {"joined", "closing", "closed", "returned_ok", "exit_1"}
       => \A t \in Tasks : task[t].pc = "done"
  /\ \A t \in Tasks :
       /\ task[t].pc \in {"lint", "lock"} => CallsBy(t) = <<>>
       /\ task[t].pc # "lint" => task[t].result.ok = OutcomeOf(t).ok
       /\ Len(CallsBy(t)) <=
            (IF OutcomeOf(t).ok THEN Len(OutcomeOf(t).diagnostics) ELSE 1)
       /\ task[t].pc = "done" => DeliveredOnce(t)

\* Two files have been handled, one failed and one with several diagnostics.
C4_Witness ==
  /\ pc = "joined"
  /\ Len(task) = 2
  /\ \E a, b \in Tasks :
       /\ ~task[a].result.ok
       /\ task[b].result.ok /\ Len(task[b].result.diagnostics) >= 2
       /\ Len(CallsBy(a)) = 1
       /\ Len(CallsBy(b)) = Len(task[b].result.diagnostics)

-----------------------------------------------------------------------------
(* C5 *)

\* The diagnostics of the final report: the list of the JSON document, or
\* the diagnostics printed to stderr.
ReportedDiagnostics ==
  IF flags.json
    THEN LET docs == SelectSeq(output, LAMBDA o : o.stream = "stdout")
         IN  IF Len(docs) = 0 THEN <<>> ELSE docs[1].text[2]
    ELSE LET ds == SelectSeq(output, LAMBDA o :
                     o.stream = "stderr" /\ o.text[1] = "diagnostic")
         IN  [k \in 1..Len(ds) |-> ds[k].text[2]]

Reported == pc \in {"closed", "returned_ok", "exit_1"}

\* C5: when the report is out and file A failed while file B was linted, A
\* is on record as one file-level error under its path, B was handled to
\* the end, every diagnostic of B is in the report, and the session failed.
C5_FailureIsolated ==
  Reported =>
    \A a, b \in Tasks :
      (~OutcomeOf(a).ok /\ OutcomeOf(b).ok) =>
        /\ Len(CallsBy(a)) = 1
        /\ CallsBy(a)[1].op = "visit_error"
        /\ CallsBy(a)[1].arg.file_path = file_path_of(a)
        /\ task[b].pc = "done"
        /\ \A k \in 1..Len(OutcomeOf(b).diagnostics) :
             Count(ReportedDiagnostics, OutcomeOf(b).diagnostics[k]) >= 1
        /\ has_error
        /\ pc # "returned_ok"

\* The report of a session in which the failing file was handled first and
\* a file with diagnostics after it.
C5_Witness ==
  /\ pc = "exit_1"
  /\ Len(task) = 2
  /\ Len(calls) >= 3
  /\ calls[1].op = "visit_error"
  /\ calls[2].op = "visit_diagnostic"
  /\ Len(ReportedDiagnostics) >= 1

-----------------------------------------------------------------------------
(* C6 *)

\* C6: close is called at most once, by the main thread, after every task
\* has delivered its outcome, and nothing is visited after it; the exit
\* status is decided only in a session that has closed its reporter.
C6_CloseOnceAtEnd ==
  /\ Len(CallsOf({"close"})) <= 1
  /\ \A k \in 1..Len(calls) : calls[k].op = "close" => k = Len(calls)
  /\ Len(CallsOf({"close"})) = 1 <=> Reported
  /\ Len(CallsOf({"close"})) = 1 =>
       /\ task # <<>>
       /\ \A t \in Tasks : task[t].pc = "done" /\ DeliveredOnce(t)
  /\ pc \in {"returned_ok", "exit_1"} => Len(CallsOf({"close"})) = 1

\* A session of two files, one failed, has closed after three visits.
C6_Witness ==
  /\ pc = "closed"
  /\ Len(task) = 2
  /\ Len(calls) = 4
  /\ calls[4].op = "close"
  /\ \E k \in 1..3 : calls[k].op = "visit_error"

-----------------------------------------------------------------------------
(* C7 *)

\* C7: at most one thread is inside a reporter method, and it is the holder
\* of the mutex; the reporter holds one entry per visit made.
C7_MutualExclusion ==
  /\ Cardinality(InsideReporter) <= 1
  /\ InsideReporter = reporter_lock
  /\ ~Reported =>
       IF flags.json
         THEN /\ Len(reporter.diagnostics) = Len(CallsOf({"visit_diagnostic"}))
              /\ Len(reporter.errors) = Len(CallsOf({"visit_error"}))
         ELSE reporter.lint_count = Len(CallsOf({"visit_diagnostic"}))

\* One task is in the middle of its visits while another waits for the lock.
C7_Witness ==
  \E a, b \in Tasks :
    /\ task[a].pc = "visit" /\ task[a].i = 2
    /\ task[b].pc = "lock"
    /\ reporter_lock = {a}

-----------------------------------------------------------------------------
(* C8 *)

RECURSIVE ConcatOutcomes(_)
ConcatOutcomes(n) ==
  IF n = 0 THEN <<>>
  ELSE ConcatOutcomes(n - 1) \o sort_diagnostics(OutcomeOf(n).diagnostics)

\* The list the JSON reporter emits when the tasks complete in the order of
\* the target files: a function of the files and the rules alone.
InOrderJsonDiagnostics == sort_diagnostics(ConcatOutcomes(Len(task)))

\* C8: the diagnostics of the JSON document are the same list whatever the
\* order in which the tasks completed.
C8_JsonOrderDeterministic ==
  (flags.json /\ Reported) => ReportedDiagnostics = InOrderJsonDiagnostics

\* The target files have pairwise different file names as the diagnostics
\* carry them.
DistinctFileNames ==
  \A a, b \in Tasks : a # b => file_path_of(a) # file_path_of(b)

\* The same statement for sessions whose files differ in their file names.
C8_DeterministicForDistinctNames ==
  (flags.json /\ Reported /\ DistinctFileNames) =>
    ReportedDiagnostics = InOrderJsonDiagnostics

-----------------------------------------------------------------------------
(* C9 *)

\* a comes strictly before b in the lexicographic order of strings.
LexLess(a, b) ==
  \E k \in 1..(Len(b)) :
    /\ \A j \in 1..(k - 1) : j <= Len(a) /\ a[j] = b[j]
    /\ \/ k = Len(a) + 1
       \/ k <= Len(a) /\ a[k] < b[k]

\* The key (file name, start line, start column) of a is not after that of b.
KeyLeq(a, b) ==
  \/ LexLess(a.filename, b.filename)
  \/ /\ a.filename = b.filename
     /\ \/ a.range.start.line_index < b.range.start.line_index
        \/ /\ a.range.start.line_index = b.range.start.line_index
           /\ a.range.start.column_index <= b.range.start.column_index

\* The diagnostics the reporter was given, in the order of the visits.
VisitedDiagnostics ==
  LET vs == CallsOf({"visit_diagnostic"})
  IN  [k \in 1..Len(vs) |-> vs[k].arg]

\* The diagnostics of the example: D1(a,5,2), D2(a,5,1), D3(b,1,1).
D1 == Diagnostic(<<97>>, 5, 2)

D2 == Diagnostic(<<97>>, 5, 1)

D3 == Diagnostic(<<98>>, 1, 1)

\* C9: the list sort_diagnostics leaves behind holds every diagnostic of the
\* input as often as the input does, and is non-decreasing in the key (file
\* name, start line, start column); D1, D2, D3 in any order give D2, D1, D3.
C9_SortedPermutation ==
  pc = "closed" =>
    LET in == VisitedDiagnostics
        out == ReportedDiagnostics
    IN  /\ Len(out) = Len(in)
        /\ \A k \in 1..Len(in) : Count(out, in[k]) = Count(in, in[k])
        /\ \A i, j \in 1..Len(out) : i < j => KeyLeq(out[i], out[j])
        /\ ({in[k] : k \in 1..Len(in)} = {D1, D2, D3} /\ Len(in) = 3)
             => out = <<D2, D1, D3>>

\* D1, D3, D2 went in and D2, D1, D3 came out.
C9_Witness ==
  /\ pc = "closed"
  /\ VisitedDiagnostics = <<D1, D3, D2>>
  /\ ReportedDiagnostics = <<D2, D1, D3>>

-----------------------------------------------------------------------------
(* C10 *)

\* The command-line list if it has an element, else what the configuration
\* file gives, else nothing.
CliElseConfig(cli, from_config) ==
  IF cli # <<>> THEN Some(cli)
  ELSE IF flags.maybe_lint_config.some THEN from_config ELSE None

\* C10: off the default path the selector handed to the engine has, each on
\* its own, the include and the exclude list of the command line if
\* non-empty and else of the configuration file, and the tags of the command
\* line if non-empty, else of the configuration file, else none.
C10_SelectorsIndependent ==
  (pc # "start" /\ ~(~flags.maybe_lint_config.some /\ flags.rules_tags = <<>>
                      /\ flags.rules_include = <<>> /\ flags.rules_exclude = <<>>))
  => LET cfg == flags.maybe_lint_config.val.rules
         tags == CliElseConfig(flags.rules_tags, cfg.tags)
     IN  /\ configured.some
         /\ configured.val.include = CliElseConfig(flags.rules_include, cfg.include)
         /\ configured.val.exclude = CliElseConfig(flags.rules_exclude, cfg.exclude)
         /\ configured.val.tags = Some(IF tags.some THEN tags.val ELSE <<>>)
         /\ lint_rules = get_filtered_rules(configured.val.tags,
                                            configured.val.exclude,
                                            configured.val.include)

\* Configuration tags [recommended] and include [ban-types], command line
\* include [no-empty]: include is [no-empty], tags are [recommended].
C10_Witness ==
  /\ pc = "configured"
  /\ flags.maybe_lint_config.some
  /\ flags.maybe_lint_config.val.rules.tags = Some(<<"recommended">>)
  /\ flags.maybe_lint_config.val.rules.include = Some(<<"ban-types">>)
  /\ flags.rules_include = <<"no-empty">>
  /\ flags.rules_tags = <<>>
  /\ configured.val.include = Some(<<"no-empty">>)
  /\ configured.val.tags = Some(<<"recommended">>)

-----------------------------------------------------------------------------
(* C11 *)

\* Nothing selects rules: no configuration and three empty command-line lists.
NothingSelected ==
  /\ ~flags.maybe_lint_config.some
  /\ flags.rules_tags = <<>>
  /\ flags.rules_include = <<>>
  /\ flags.rules_exclude = <<>>

\* C11: the rules are the recommended set, with no selector handed to the
\* engine, exactly if there is no configuration and no command-line
\* selector; in every other case a selector is handed to the engine and the
\* rules are what it filters.
C11_DefaultPathIff ==
  pc # "start" =>
    /\ ~configured.some <=> NothingSelected
    /\ NothingSelected => lint_rules = get_recommended_rules
    /\ ~NothingSelected =>
         lint_rules = get_filtered_rules(configured.val.tags,
                                         configured.val.exclude,
                                         configured.val.include)

\* A configuration that specifies nothing, and no command-line selector: the
\* rules are filtered (to none), not the recommended set.
C11_Witness ==
  /\ pc # "start"
  /\ flags.maybe_lint_config = Some(LintConfig(None, None, None))
  /\ flags.rules_tags = <<>> /\ flags.rules_include = <<>>
  /\ flags.rules_exclude = <<>>
  /\ configured.some
  /\ lint_rules # get_recommended_rules

-----------------------------------------------------------------------------
(* C12 *)

\* The characters of a printed line, whatever their colour.
RECURSIVE Flat(_)
Flat(segments) ==
  IF segments = <<>> THEN <<>>
  ELSE Head(segments).text \o Flat(Tail(segments))

\* The one diagnostic has been visited and printed.
Printed == Len(calls) = 1 /\ Len(output) = 1 /\ calls[1].op = "visit_diagnostic"

PrintedRange == calls[1].arg.range

PrintedSnippets ==
  LET f == output[1].text[3]
  IN  [k \in 1..Len(f.snippets) |-> Flat(f.snippets[k])]

SourceLines == split(task[1].result.source, 10)

\* n spaces followed by m carets.
Marker(n, m) == [k \in 1..(n + m) |-> IF k <= n THEN " " ELSE "^"]

\* C12: for a range within one line, format_diagnostic does not fail and
\* its snippet is two lines: the source line, then start.column_index
\* spaces followed by end.column_index - start.column_index carets.
C12_SingleLineSnippet ==
  (Printed /\ PrintedRange.start.line_index = PrintedRange.end.line_index) =>
    LET r == PrintedRange
    IN  /\ ~output[1].text[3].panicked
        /\ PrintedSnippets =
             << SourceLines[r.start.line_index + 1],
                Marker(r.start.column_index,
                       r.end.column_index - r.start.column_index) >>
        /\ (SourceLines = <<LetLine>> /\ r = [start |-> Pos(0, 4), end |-> Pos(0, 7)])
             => PrintedSnippets[2] = <<" ", " ", " ", " ", "^", "^", "^">>

\* (0,4)-(0,7) on "let xxx = 1;" is printed.
C12_Witness ==
  /\ Printed
  /\ SourceLines = <<LetLine>>
  /\ PrintedRange = [start |-> Pos(0, 4), end |-> Pos(0, 7)]
  /\ Len(PrintedSnippets) = 2

-----------------------------------------------------------------------------
(* C13 *)

\* The marker expected under line i of a range over several lines, as a
\* list of none or one line.
ExpectedMarker(i, r) ==
  LET line == SourceLines[i + 1]
  IN  IF i = r.start.line_index
        THEN <<Marker(r.start.column_index, len(line) - r.start.column_index)>>
        ELSE IF i = r.end.line_index
          THEN <<Marker(0, r.end.column_index)>>
          ELSE IF line = <<>> THEN <<>> ELSE <<Marker(0, len(line))>>

RECURSIVE ExpectedFrom(_, _)
ExpectedFrom(i, r) ==
  IF i > r.end.line_index THEN <<>>
  ELSE <<SourceLines[i + 1]>> \o ExpectedMarker(i, r) \o ExpectedFrom(i + 1, r)

\* C13: for a range over several lines the snippet holds every line from
\* start.line_index to end.line_index in order, each followed by its marker:
\* under the first line start.column_index spaces and carets up to the
\* length of the line, under the last line end.column_index carets, under a
\* line in between carets for its whole length, and nothing if it is empty.
C13_MultiLineSnippet ==
  (Printed /\ PrintedRange.start.line_index < PrintedRange.end.line_index) =>
    /\ ~output[1].text[3].panicked
    /\ PrintedSnippets = ExpectedFrom(PrintedRange.start.line_index, PrintedRange)

\* A range from the first to the last of four lines, the second one empty:
\* four lines and three markers.
C13_Witness ==
  /\ Printed
  /\ Len(SourceLines) = 4
  /\ PrintedRange = [start |-> Pos(0, 1), end |-> Pos(3, 1)]
  /\ Len(PrintedSnippets) = 7
  /\ PrintedSnippets[3] = <<>>
  /\ PrintedSnippets[4] = <<233, 98>>

-----------------------------------------------------------------------------
(* C14 *)

\* The one document of the JSON reporter.
JsonDocument == output[1].text

\* The tasks whose file could not be linted.
FailedTasks == {t \in Tasks : ~OutcomeOf(t).ok}

\* The two sequences hold the same elements, each as often.
SameElements(s, u) ==
  /\ Len(s) = Len(u)
  /\ \A k \in 1..Len(s) : Count(s, s[k]) = Count(u, s[k])

\* C14: in a session with --json nothing is printed before close; once the
\* reporter is closed there is exactly one document, on stdout, whose
\* diagnostics are those of all linted files, each as often as the engine
\* produced it, in the order sort_diagnostics leaves them in, and whose
\* errors are one {file_path, message} record per failed file.
C14_JsonDocument ==
  flags.json =>
    /\ ~Reported => output = <<>>
    /\ Reported =>
         /\ Len(output) = 1
         /\ output[1].stream = "stdout"
         /\ SameElements(JsonDocument[2], ConcatOutcomes(Len(task)))
         /\ JsonDocument[2] = sort_diagnostics(JsonDocument[2])
         /\ \A k \in 1..(Len(JsonDocument[2]) - 1) :
              KeyLeq(JsonDocument[2][k], JsonDocument[2][k + 1])
         /\ Len(JsonDocument[3]) = Cardinality(FailedTasks)
         /\ \A t \in FailedTasks :
              Count(JsonDocument[3], LintError(file_path_of(t), OutcomeOf(t).err))
                = Cardinality({u \in FailedTasks :
                     /\ file_path_of(u) = file_path_of(t)
                     /\ OutcomeOf(u).err = OutcomeOf(t).err})

\* The document of a session with a failed file and a file with several
\* diagnostics.
C14_Witness ==
  /\ flags.json
  /\ Reported
  /\ Len(output) = 1
  /\ Cardinality(FailedTasks) = 1
  /\ Len(JsonDocument[2]) >= 2
  /\ Len(JsonDocument[3]) = 1

-----------------------------------------------------------------------------
(* C15 *)

\* The lines close logs that start with the given word.
InfoLines(word) ==
  SelectSeq(output, LAMBDA o : o.stream = "info" /\ o.text[1] = word)

DiagnosticsVisited == Len(CallsOf({"visit_diagnostic"}))

\* "Found n problem(s)" and "Checked n file(s)" as close words them.
FoundLine(n) ==
  [stream |-> "info",
   text |-> <<"Found", n, IF n = 1 THEN "problem" ELSE "problems">>]

CheckedLine(n) ==
  [stream |-> "info",
   text |-> <<"Checked", n, IF n = 1 THEN "file" ELSE "files">>]

\* The count of the reporter is the number of diagnostics visited, which is
\* the number of diagnostics of all linted files; failed files add nothing.
ProblemCountIsVisited ==
  /\ reporter.lint_count = DiagnosticsVisited
  /\ DiagnosticsVisited = Len(ConcatOutcomes(Len(task)))

\* One "Checked" line with the number of files handled, 1 for "-".
CheckedFilesLine ==
  /\ InfoLines("Checked") = <<CheckedLine(Len(task))>>
  /\ is_stdin(flags.args) => Len(task) = 1
  /\ ~is_stdin(flags.args) => Len(task) = Len(env.collect.files)

\* C15 as stated: once the human-readable reporter is closed, its count is
\* the number of diagnostics visited, and there is a "Found N problem(s)"
\* line for that count and a "Checked N file(s)" line for the files handled.
C15_FoundLineForEveryCount ==
  (~flags.json /\ Reported) =>
    /\ ProblemCountIsVisited
    /\ InfoLines("Found") = <<FoundLine(DiagnosticsVisited)>>
    /\ CheckedFilesLine

\* C15: once the human-readable reporter is closed, its count is the number
\* of diagnostics visited (file-level errors not counted); there is one
\* "Found N problem(s)" line for that count if it is at least 1 and none if
\* it is 0; and there is one "Checked N file(s)" line for the number of
\* files handled, 1 for "-".
C15_CloseSummary ==
  (~flags.json /\ Reported) =>
    /\ ProblemCountIsVisited
    /\ InfoLines("Found") =
         (IF DiagnosticsVisited = 0 THEN <<>>
          ELSE <<FoundLine(DiagnosticsVisited)>>)
    /\ CheckedFilesLine

\* The summary of a session with a failed file and a file with several
\* diagnostics.
C15_Witness ==
  /\ ~flags.json
  /\ Reported
  /\ Len(task) = 2
  /\ Cardinality(FailedTasks) = 1
  /\ reporter.lint_count >= 2
  /\ Len(InfoLines("Found")) = 1

-----------------------------------------------------------------------------
(* C16 *)

\* C16: when the arguments are the single "-", collect_files is not asked
\* (its failure would return an error), there is never more than one task,
\* every diagnostic carries the name "_stdin.ts", a failure to read
\* standard input is handed to the reporter as the one file-level error of
\* "_stdin.ts", the task that has returned has delivered the outcome of
\* lint_stdin exactly once, and the reporter is closed with a count of 1.
C16_StdinMode ==
  is_stdin(flags.args) =>
    /\ pc # "returned_err"
    /\ Len(task) <= 1
    /\ pc # "start" /\ pc # "configured" => Len(task) = 1
    /\ \A t \in Tasks :
         /\ task[t].pc # "lint" =>
              sorted_result(task[t].result)
                = sorted_result(lint_stdin(env.stdin_ok, lint_rules))
         /\ task[t].pc = "done" => DeliveredOnce(t)
    /\ \A k \in 1..Len(calls) :
         /\ calls[k].op = "visit_diagnostic" =>
              /\ env.stdin_ok
              /\ calls[k].arg.filename = STDIN_FILE_NAME
         /\ calls[k].op = "visit_error" =>
              /\ ~env.stdin_ok
              /\ k = 1
              /\ calls[k].arg
                   = LintError(STDIN_FILE_NAME, "Failed to read from stdin")
         /\ calls[k].op = "close" => calls[k].arg = 1
    /\ Reported =>
         /\ Len(CallsOf({"close"})) = 1
         /\ ~env.stdin_ok => Len(CallsOf({"visit_error"})) = 1

\* Standard input could not be read: the error of "_stdin.ts" was visited
\* and the reporter closed with a count of 1.
C16_Witness ==
  /\ is_stdin(flags.args)
  /\ ~env.stdin_ok
  /\ Reported
  /\ Len(calls) = 2
  /\ calls[1].op = "visit_error"
  /\ calls[1].arg.file_path = STDIN_FILE_NAME
  /\ calls[2] = [op |-> "close", by |-> MainThread, arg |-> 1]

-----------------------------------------------------------------------------
(* C17 *)

\* collect_files answers with an error or with no file.
NothingCollected == ~env.collect.ok \/ is_empty(env.collect.files)

-----------------------------------------------------------------------------
(* C18 *)

\* The path a configured string names: the string itself when it is ASCII,
\* and the two bytes 0xC3 0xA9 for "é".
PathNamed(text) == IF text = <<233>> THEN <<195, 169>> ELSE text

\* The list of paths is the list of configured strings.
PathsAre(paths, texts) ==
  /\ Len(paths) = Len(texts)
  /\ \A k \in 1..Len(texts) : paths[k] = PathNamed(texts[k])

\* C18: once the paths are prepared, the include paths are the path
\* arguments if there are any and otherwise files.include of the
\* configuration file; the exclude paths are --ignore if it is not empty
\* and otherwise files.exclude of the configuration file; each whatever the
\* other is; without a configuration file both are the command line's.
C18_PathPrecedence ==
  pc # "start" =>
    LET c == flags.maybe_lint_config
    IN  /\ ~is_empty(flags.args) => include_files = flags.args
        /\ ~is_empty(flags.ignore) => exclude_files = flags.ignore
        /\ (c.some /\ is_empty(flags.args))
             => PathsAre(include_files, c.val.files.include)
        /\ (c.some /\ is_empty(flags.ignore))
             => PathsAre(exclude_files, c.val.files.exclude)
        /\ ~c.some => include_files = flags.args /\ exclude_files = flags.ignore

\* No path argument but --ignore, and a configuration file with both lists:
\* the include paths are the file's, the exclude paths the command line's.
C18_Witness ==
  /\ pc # "start"
  /\ flags.args = <<>>
  /\ flags.ignore = << <<98>> >>
  /\ flags.maybe_lint_config.some
  /\ flags.maybe_lint_config.val.files.include = << <<233>> >>
  /\ flags.maybe_lint_config.val.files.exclude = << <<120>> >>
  /\ include_files = << <<195, 169>> >>
  /\ exclude_files = << <<98>> >>

-----------------------------------------------------------------------------
(* C19 *)

\* Every task has returned and the reporter has its whole outcome.
EveryOutcomeDelivered ==
  \A t \in Tasks : task[t].pc = "done" /\ DeliveredOnce(t)

\* C19: under fair scheduling, a session that has started its tasks
\* eventually has delivered the outcome of every file and closed the
\* reporter; in particular no task waits for the mutex forever.
C19_EventuallyClosed ==
  (pc = "running") ~> (EveryOutcomeDelivered /\ Reported)

\* Two tasks, one whose file failed waiting for the mutex that the other,
\* whose file was linted, holds.
C19_Witness ==
  /\ pc = "running"
  /\ Len(task) = 2
  /\ \E a, b \in Tasks :
       /\ task[a].pc = "lock" /\ ~task[a].result.ok
       /\ task[b].pc \in {"loop", "visit"} /\ task[b].result.ok
       /\ reporter_lock = {b}

-----------------------------------------------------------------------------
(* C20 *)

\* The visits the reporter has seen, diagnostics and errors, in order.
VisitCalls == CallsOf(Visits)

\* (start line, start column) of a is not after that of b.
StartLeq(a, b) ==
  \/ a.range.start.line_index < b.range.start.line_index
  \/ /\ a.range.start.line_index = b.range.start.line_index
     /\ a.range.start.column_index <= b.range.start.column_index

\* The diagnostics a task has handed to the reporter, in order.
BlockOf(t) ==
  LET mine == SelectSeq(CallsBy(t), LAMBDA c : c.op = "visit_diagnostic")
  IN  [k \in 1..Len(mine) |-> mine[k].arg]

\* C20: the visits of one task are contiguous among all visits, no visit of
\* another file's diagnostic or error between them; within them the
\* diagnostics are in non-decreasing (start line, start column) order; and
\* the block of a task that has returned is the sorted diagnostics of its
\* file, so that only the order of the blocks is left to the schedule.
C20_PerFileBlocks ==
  /\ \A i, j, k \in 1..Len(VisitCalls) :
       (i < j /\ j < k /\ VisitCalls[i].by = VisitCalls[k].by)
         => VisitCalls[j].by = VisitCalls[i].by
  /\ \A t \in Tasks :
       /\ \A k \in 1..(Len(BlockOf(t)) - 1) :
            StartLeq(BlockOf(t)[k], BlockOf(t)[k + 1])
       /\ task[t].pc = "done" =>
            BlockOf(t) = sort_diagnostics(OutcomeOf(t).diagnostics)

\* The second file's block of several diagnostics came first, the first
\* file's block after it.
C20_Witness ==
  /\ Len(task) = 2
  /\ Len(BlockOf(2)) >= 2
  /\ Len(BlockOf(1)) >= 1
  /\ VisitCalls[1].by = 2
  /\ VisitCalls[Len(VisitCalls)].by = 1
  /\ OutcomeOf(2).diagnostics # sort_diagnostics(OutcomeOf(2).diagnostics)

====
